---- MODULE Spec2Model ----
(***************************************************************************)
(* A model of pyft's chunked transfer engine (src/src/pyft/client.py) and  *)
(* of the part of its HTTP server (src/src/pyft/server.py) the engine      *)
(* talks to.                                                               *)
(*                                                                         *)
(* Offsets, chunk ids and progress-record keys are 0-based as in the       *)
(* source.  A file is a sequence of bytes: the byte at offset o is         *)
(* file[o + 1].  The remote file holds RemoteByte(o) at offset o; a byte   *)
(* of value 0 is the filler of a pre-sized output file.                    *)
(***************************************************************************)
EXTENDS Integers, Sequences, FiniteSets, TLC

(* ------------------------------ bounds -------------------------------- *)

\* Largest num_threads an engine is constructed with in Spec.
MaxThreads == 2
\* Downloader.chunk_size / Uploader.chunk_size: bytes per block.
ChunkSize == 1
\* Capacity of the buffered writer behind open(output_file, "rb+").
BufSize == 2
\* How often the downloading process is killed and started again.
MaxKills == 1
\* How often the caller sets the pause event.
MaxPauses == 1
\* SpecStart draws sizes from 0..MaxPartSize and thread counts from
\* 1..MaxPartThreads.
MaxPartSize == 6
MaxPartThreads == 3
\* Values a line of a progress record found on disk may carry (SpecStart).
MaxRecordValue == 2

(* ------------------------- program constants -------------------------- *)

\* client.py:51: a HEAD size of "357" is taken for the length of an error
\* page, not of the file
ErrorPageSize == 357

\* client.py:154: progress is saved when downloaded % (chunk_size * 10) == 0
SaveEvery == 10

(* ------------------------------ helpers ------------------------------- *)

Min(a, b) == IF a <= b THEN a ELSE b

Max(a, b) == IF a >= b THEN a ELSE b

\* Content of the remote file: never the filler byte 0.
RemoteByte(o) == 1 + (o % 3)

RemoteFile(size) == [k \in 1..size |-> RemoteByte(k - 1)]

\* The bytes at offsets first..last of the remote file (empty if last < first).
RemoteSlice(first, last) == [k \in 1..(last - first + 1) |-> RemoteByte(first + k - 1)]

\* A file after `data` was written at offset `off`: a write past the end
\* extends the file, a gap is zero-filled.
WriteAt(file, off, data) ==
    [k \in 1..Max(Len(file), off + Len(data)) |->
        IF k > off /\ k <= off + Len(data) THEN data[k - off]
        ELSE IF k <= Len(file) THEN file[k]
        ELSE 0]

\* open(output_file, "wb"); f.seek(total_size - 1); f.write(b"\0")
PreSized(total) == [k \in 1..total |-> 0]

(* --------------------------- range partition --------------------------- *)

\* Partition with the slip of giving the last range the common length too.
PartitionEvenLast(total, n) ==
    [i \in 0..(n - 1) |->
        LET chunk_size == total \div n
            start == i * chunk_size
        IN  [start |-> start, end |-> start + chunk_size - 1]]

\* The (start, end) pairs computed by the loops of Downloader.download and
\* Uploader.upload, for n >= 1.
Partition(total, n) ==
    [i \in 0..(n - 1) |->
        LET chunk_size == total \div n
            start == i * chunk_size
        IN  [start |-> start,
             end   |-> IF i < n - 1 THEN start + chunk_size - 1 ELSE total - 1]]

(* --------------------------- progress record --------------------------- *)

\* A field of a line of the progress file: an integer literal, or text
\* int() rejects.
IntField(n) == [ok |-> TRUE, n |-> n]

JunkField == [ok |-> FALSE, n |-> 0]

\* f.write(f"{i}:{chunk.downloaded}\n"): a line is the sequence of its
\* ":"-separated fields.
FormatLine(i, d) == <<IntField(i), IntField(d)>>

\* `for chunk, pos in [line.strip().split(":")]` with int(chunk), int(pos)
LineParses(line) == Len(line) = 2 /\ line[1].ok /\ line[2].ok

EmptyProgress == [k \in {} |-> 0]

\* The dict comprehension over well-formed lines: a later line overrides an
\* earlier one with the same key.
ParsedLines(lines) ==
    LET keys == {lines[k][1].n : k \in 1..Len(lines)}
        last(key) == CHOOSE k \in 1..Len(lines) :
                        /\ lines[k][1].n = key
                        /\ \A j \in (k + 1)..Len(lines) : lines[j][1].n # key
    IN  [key \in keys |-> lines[last(key)][2].n]

\* _load_progress with the slip of guarding each line instead of the whole
\* file: the lines that parse are kept, the others skipped.
LoadProgressSkipBad(exists, readable, lines) ==
    IF ~exists \/ ~readable THEN [raised |-> FALSE, map |-> EmptyProgress]
    ELSE [raised |-> FALSE,
          map |-> ParsedLines(SelectSeq(lines, LineParses))]

\* Downloader._load_progress: the mapping, and whether an exception leaves it.
LoadProgress(exists, readable, lines) ==
    IF ~exists THEN [raised |-> FALSE, map |-> EmptyProgress]
    ELSE IF ~readable \/ \E k \in 1..Len(lines) : ~LineParses(lines[k])
         THEN [raised |-> FALSE, map |-> EmptyProgress]
         ELSE [raised |-> FALSE, map |-> ParsedLines(lines)]

\* progress.get(i, 0)
Get(progress, i) == IF i \in DOMAIN progress THEN progress[i] ELSE 0

(* -------------------------------- server ------------------------------- *)

\* handle_download for "Range: bytes=<s>-<e>" on a file of `size` bytes, as
\* the client sees it: the status, and the offsets first..last of the body
\* it reads (Content-Length bytes from start_byte; the engine never asks
\* for an end past the file).  "bytes=s-e" is split at
\* "-": a negative s leaves an empty first field (400), a negative e an
\* empty second field, which keeps end_byte = size - 1.
ServerRange(s, e, size) ==
    IF s < 0 THEN [status |-> 400, first |-> 0, last |-> -1]
    ELSE LET end_byte == IF e < 0 THEN size - 1 ELSE e
         IN  IF s >= size THEN [status |-> 416, first |-> 0, last |-> -1]
             ELSE [status |-> 206, first |-> s, last |-> Min(end_byte, size - 1)]

\* response.headers.get("content-length"): the header's decimal text, or
\* None when the response has no such header.
Header(n) == [present |-> TRUE, n |-> n]

NoHeader == [present |-> FALSE, n |-> 0]

\* What a server answers to the requests download() makes before it
\* transfers: the size header of its HEAD response, the size header of its
\* GET response, whether it honours a Range header.
\* pyft's server has no do_HEAD: the HEAD request is answered 501 with the
\* 357-byte error page; its GET response carries the size of the file.
PyftServer(size) ==
    [head |-> Header(ErrorPageSize), get |-> Header(size), ranges |-> TRUE]

\* Servers download() may be pointed at: the HEAD response carries no size,
\* "0", the size of an error page or the size of the file; the GET response
\* carries the size of its body or none (chunked encoding).
Servers(size) ==
    [head : {NoHeader, Header(0), Header(ErrorPageSize), Header(size)},
     get : {NoHeader, Header(size)},
     ranges : BOOLEAN]

\* The token parameter of a request: missing, one that validate_token
\* rejects, one that it accepts.
Tokens == {"none", "bad", "good"}

\* utils.validate_token: the token is the hash of an entry of users_db.
ValidateToken(token) == token = "good"

\* What a handler sent: the status, the Content-Length it declared (0 where
\* it declares none), the bytes of a file in the body, the files listed; and
\* whether the handler got as far as the file system.
Response(kind, token, status, length, body, listed, touched) ==
    [kind |-> kind, token |-> token, status |-> status, length |-> length,
     body |-> body, listed |-> listed, touched |-> touched]

NoResponse == Response("none", "none", 0, 0, <<>>, {}, FALSE)

\* The Range header of a download request: none, or "bytes=<s>-<e>" where a
\* negative e stands for "bytes=<s>-" and a negative s gives an empty first
\* field.
NoRange == [present |-> FALSE, s |-> 0, e |-> 0]

RangeHeader(s, e) == [present |-> TRUE, s |-> s, e |-> e]

\* A request that names no file and has no Range header.
NoRequest == [file |-> "none", range |-> NoRange]

\* handle_download's body loop with the slip of sending nothing for a file
\* of a single byte.
WrittenBodyFromSecond(file, start_byte, content_length) ==
    IF content_length > 1 THEN SubSeq(file, start_byte + 1, Len(file)) ELSE <<>>

\* handle_download's body loop: throttled_read yields blocks from start_byte
\* up to the end of the file, and all of them are written, once
\* content_length is positive.
WrittenBody(file, start_byte, content_length) ==
    IF content_length > 0 THEN SubSeq(file, start_byte + 1, Len(file)) ELSE <<>>

(* ----------------------------- output file ----------------------------- *)

\* f.write(data) on the buffered file object: what reaches the file, and what
\* stays in the writer's buffer.  `fpos` is the file position before the
\* write; the buffer holds the bytes for fpos - Len(buf) .. fpos - 1.
BufferedWrite(file, fpos, buf, data) ==
    IF Len(data) <= BufSize - Len(buf)
    THEN [file |-> file, buf |-> buf \o data]
    ELSE LET flushed == WriteAt(file, fpos - Len(buf), buf)
         IN  IF Len(data) > BufSize
             THEN [file |-> WriteAt(flushed, fpos, data), buf |-> <<>>]
             ELSE [file |-> flushed, buf |-> data]

\* Closing the file object (leaving `with open(...) as f`) flushes the buffer.
CloseFile(file, fpos, buf) == WriteAt(file, fpos - Len(buf), buf)

(* -------------------------------- state -------------------------------- *)

VARIABLES
    fileSize,      \* size of the remote file
    num_threads,   \* Core.threads: the worker count both engines are given
    outExists,     \* the output file exists
    outFile,       \* its content
    progExists,    \* the progress file output_file + ".progress" exists
    progReadable,  \* it can be opened for reading
    progLines,     \* its lines
    cpc,           \* where Downloader.download is
    total_size,    \* Downloader.total_size
    progress,      \* the mapping _load_progress returned
    chunks,        \* Downloader.chunks
    downloaded,    \* Downloader.downloaded
    w,             \* the pool's workers: one _download_chunk call per chunk
    pause,         \* pause_event.is_set()
    saver,         \* holder of Downloader.progress_lock (-1: free)
    saveBuf,       \* lines _save_progress has written to its file object
    kills,         \* times the process was killed
    pauses,        \* times the pause event was set
    file_size,     \* Uploader.file_size
    upc,           \* where Uploader.upload is
    uchunks,       \* Uploader.chunks
    uw,            \* the pool's workers: one _upload_chunk call per chunk
    uploaded,      \* Uploader.uploaded
    storedExists,  \* the server has a file under the uploaded name
    storedFile,    \* its content
    server,        \* what the server at self.url answers to the probes
    tempExists,    \* the file output_file + ".temp" exists
    tempFile,      \* its content
    downloaded_size, \* _single_thread_download's byte count
    dirExists,     \* the server's directory ./files exists
    reply,         \* the server's answer to the last request it handled
    request,       \* the file parameter and Range header of that request
    lock           \* the download worker inside `with self.lock:`, or None

disk == <<outExists, outFile, progExists, progReadable, progLines>>

dl == <<cpc, total_size, progress, chunks, downloaded, w, saver, saveBuf>>

ul == <<file_size, upc, uchunks, uw, uploaded, storedExists, storedFile>>

env == <<fileSize, num_threads, pause, kills, pauses>>

\* The probes of download() and its single-threaded path.
st == <<server, tempExists, tempFile, downloaded_size>>

\* The server's request handlers.
sv == <<dirExists, reply, request>>

vars == <<disk, dl, ul, env, st, sv, lock>>

\* self.total_size after _get_file_size returned None
None == -1

\* A submitted _download_chunk call: where it is, the offsets of the body
\* still to come, the file position, the writer's buffer, the block in hand,
\* the number of requests.get calls it has made, and what made it return
\* False ("status": a status other than 206; "network": requests.get raised;
\* "stream": iter_content raised).
NoWorker == [pc |-> "pending", rpos |-> 0, rend |-> -1, fpos |-> 0,
             buf |-> <<>>, data |-> <<>>, tries |-> 0, err |-> "none"]

Terminated == {"complete", "paused", "failed"}

AllTerminated == \A i \in DOMAIN w : w[i].pc \in Terminated

AnyFailed == \E i \in DOMAIN w : w[i].pc = "failed"

Running == cpc \in {"monitor", "joining"}

\* Uploader.upload is inside `with ThreadPoolExecutor(...)`: in its monitor
\* loop, or leaving the block with the result it is about to return.
Uploading == upc \in {"running", "failing", "joining"}

\* A submitted _upload_chunk call: where it is, the bytes it read, and what
\* made it return False.
NoUploadWorker == [pc |-> "pending", data |-> <<>>, err |-> "none"]

AllUploadsTerminated == \A i \in DOMAIN uw : uw[i].pc \in Terminated

RECURSIVE SumDownloaded(_, _)
\* self.downloaded += downloaded, for the first n chunks
SumDownloaded(ch, n) ==
    IF n = 0 THEN 0 ELSE SumDownloaded(ch, n - 1) + ch[n - 1].downloaded

(* ------------------------------- download ------------------------------ *)

\* Downloader._get_file_size: the HEAD response's size unless it is missing,
\* "0" or "357"; else the GET response's size if it has one; else None.
GetFileSize(head, get) ==
    IF head.present /\ head.n # 0 /\ head.n # ErrorPageSize THEN head.n
    ELSE IF get.present THEN get.n
    ELSE None

\* download: self.total_size = self._get_file_size(); None sends it to
\* _single_thread_download.
SizeProbe ==
    /\ cpc = "start"
    /\ total_size' = GetFileSize(server.head, server.get)
    /\ cpc' = IF total_size' = None THEN "single" ELSE "sized"
    /\ UNCHANGED <<sv, lock, disk, progress, chunks, downloaded, w, saver, saveBuf, ul,
                   env, st>>

\* Status of the answer to "Range: bytes=0-0": a server that does not honour
\* Range answers the plain GET.
RangeProbeStatus == IF server.ranges THEN ServerRange(0, 0, fileSize).status ELSE 200

\* download with the slip of starting the ranges whatever the probe's status.
RangeProbeUnchecked ==
    /\ cpc = "sized"
    /\ cpc' = "new"
    /\ UNCHANGED <<sv, lock, disk, total_size, progress, chunks, downloaded, w, saver,
                   saveBuf, ul, env, st>>

\* download: the request with "Range: bytes=0-0"; any status but 206 sends it
\* to _single_thread_download.
RangeProbe ==
    /\ cpc = "sized"
    /\ cpc' = IF RangeProbeStatus # 206 THEN "single" ELSE "new"
    /\ UNCHANGED <<sv, lock, disk, total_size, progress, chunks, downloaded, w, saver,
                   saveBuf, ul, env, st>>

\* requests.head or requests.get of a probe raises: download() raises.
ProbeError ==
    /\ cpc \in {"start", "sized"}
    /\ cpc' = "raised"
    /\ UNCHANGED <<sv, lock, disk, total_size, progress, chunks, downloaded, w, saver,
                   saveBuf, ul, env, st>>

\* _single_thread_download: the plain GET is answered with the file;
\* open(temp_file, "wb") creates or truncates the temporary file.
SingleRequest ==
    /\ cpc = "single"
    /\ cpc' = "stream"
    /\ tempExists' = TRUE
    /\ tempFile' = <<>>
    /\ downloaded_size' = 0
    /\ UNCHANGED <<sv, lock, disk, total_size, progress, chunks, downloaded, w, saver,
                   saveBuf, ul, env, server>>

\* _single_thread_download: requests.get or raise_for_status raises.
SingleRequestError ==
    /\ cpc = "single"
    /\ cpc' = "raised"
    /\ UNCHANGED <<sv, lock, disk, total_size, progress, chunks, downloaded, w, saver,
                   saveBuf, ul, env, st>>

\* _single_thread_download: the next block of the body is written to the
\* temporary file (which is closed before it is renamed) and counted.
SingleRecv ==
    /\ cpc = "stream"
    /\ downloaded_size < fileSize
    /\ LET n == Min(ChunkSize, fileSize - downloaded_size)
           data == RemoteSlice(downloaded_size, downloaded_size + n - 1)
       IN  /\ tempFile' = WriteAt(tempFile, downloaded_size, data)
           /\ downloaded_size' = downloaded_size + n
    /\ UNCHANGED <<sv, lock, disk, dl, ul, env, server, tempExists>>

\* _single_thread_download: iter_content raises; the temporary file is left.
SingleStreamError ==
    /\ cpc = "stream"
    /\ downloaded_size < fileSize
    /\ cpc' = "raised"
    /\ UNCHANGED <<sv, lock, disk, total_size, progress, chunks, downloaded, w, saver,
                   saveBuf, ul, env, st>>

\* _single_thread_download: the body has ended; the output file, if there is
\* one, is removed and the temporary file renamed to it; download() stores
\* the byte count as total_size and returns.
SingleFinish ==
    /\ cpc = "stream"
    /\ downloaded_size = fileSize
    /\ cpc' = "single_done"
    /\ outExists' = TRUE
    /\ outFile' = tempFile
    /\ tempExists' = FALSE
    /\ tempFile' = <<>>
    /\ total_size' = downloaded_size
    /\ UNCHANGED <<sv, lock, progExists, progReadable, progLines, progress, chunks,
                   downloaded, w, saver, saveBuf, ul, env, server,
                   downloaded_size>>

\* Downloader.download from "Starting multi-threaded download", reached when
\* the probes gave a size and 206: create the output file if missing, load
\* the progress, build the chunks, submit one worker per chunk.  seek(-1)
\* raises after open(..., "wb") created the file; total_size // 0 raises,
\* and so does ThreadPoolExecutor for a worker count below 1.
StartDownload ==
    /\ cpc = "new"
    /\ LET total == total_size
           seekFails == ~outExists /\ total - 1 < 0
           loaded == LoadProgress(progExists, progReadable, progLines)
       IN  /\ outExists' = TRUE
           /\ outFile' = IF outExists THEN outFile
                         ELSE IF seekFails THEN <<>> ELSE PreSized(total)
           /\ IF seekFails \/ loaded.raised
              THEN /\ cpc' = "raised"
                   /\ UNCHANGED <<progress, chunks, downloaded, w>>
              ELSE IF num_threads < 1
              THEN /\ cpc' = "raised"
                   /\ progress' = loaded.map
                   /\ UNCHANGED <<chunks, downloaded, w>>
              ELSE LET part == Partition(total, num_threads)
                       built == [i \in DOMAIN part |->
                                    [start |-> part[i].start, end |-> part[i].end,
                                     downloaded |-> Get(loaded.map, i),
                                     complete |-> FALSE]]
                   IN  /\ cpc' = "monitor"
                       /\ progress' = loaded.map
                       /\ chunks' = built
                       /\ downloaded' = SumDownloaded(built, num_threads)
                       /\ w' = [i \in DOMAIN built |-> NoWorker]
    /\ UNCHANGED <<sv, lock, st, total_size, progExists, progReadable, progLines, saver,
                   saveBuf, ul, env>>

\* _download_chunk with the slip of reading the body of an answer whose
\* status is not 206 as if it were the file from its first byte.
RequestAnyStatus(i) ==
    /\ Running
    /\ w[i].pc = "pending"
    /\ LET from == chunks[i].start + chunks[i].downloaded
           resp == ServerRange(from, chunks[i].end, fileSize)
       IN  w' = [w EXCEPT ![i] =
                    IF resp.status # 206
                    THEN [@ EXCEPT !.pc = "recv", !.rpos = 0,
                                   !.rend = fileSize - 1, !.fpos = from,
                                   !.tries = @ + 1, !.err = "status"]
                    ELSE [@ EXCEPT !.pc = "recv", !.rpos = resp.first,
                                   !.rend = resp.last, !.fpos = from,
                                   !.tries = @ + 1]]
    /\ UNCHANGED <<sv, lock, st, disk, cpc, total_size, progress, chunks, downloaded,
                   saver, saveBuf, ul, env>>

\* _download_chunk with the slip of seeking to chunk.start, whatever the
\* range has downloaded already.
RequestSeekStart(i) ==
    /\ Running
    /\ w[i].pc = "pending"
    /\ LET from == chunks[i].start + chunks[i].downloaded
           resp == ServerRange(from, chunks[i].end, fileSize)
       IN  w' = [w EXCEPT ![i] =
                    IF resp.status # 206
                    THEN [@ EXCEPT !.pc = "failed", !.tries = @ + 1,
                                   !.err = "status"]
                    ELSE [@ EXCEPT !.pc = "recv", !.rpos = resp.first,
                                   !.rend = resp.last, !.fpos = chunks[i].start,
                                   !.tries = @ + 1]]
    /\ UNCHANGED <<sv, lock, st, disk, cpc, total_size, progress, chunks, downloaded,
                   saver, saveBuf, ul, env>>

\* _download_chunk: the range request is answered.
Request(i) ==
    /\ Running
    /\ w[i].pc = "pending"
    /\ LET from == chunks[i].start + chunks[i].downloaded
           resp == ServerRange(from, chunks[i].end, fileSize)
       IN  w' = [w EXCEPT ![i] =
                    IF resp.status # 206
                    THEN [@ EXCEPT !.pc = "failed", !.tries = @ + 1,
                                   !.err = "status"]
                    ELSE [@ EXCEPT !.pc = "recv", !.rpos = resp.first,
                                   !.rend = resp.last, !.fpos = from,
                                   !.tries = @ + 1]]
    /\ UNCHANGED <<sv, lock, st, disk, cpc, total_size, progress, chunks, downloaded,
                   saver, saveBuf, ul, env>>

\* _download_chunk: requests.get raises (the network fails).
RequestError(i) ==
    /\ Running
    /\ w[i].pc = "pending"
    /\ w' = [w EXCEPT ![i] = [@ EXCEPT !.pc = "failed", !.tries = @ + 1,
                                       !.err = "network"]]
    /\ UNCHANGED <<sv, lock, st, disk, cpc, total_size, progress, chunks, downloaded,
                   saver, saveBuf, ul, env>>

\* iter_content yields the next block of the body.
RecvBlock(i) ==
    /\ Running
    /\ w[i].pc = "recv"
    /\ w[i].rpos <= w[i].rend
    /\ LET n == Min(ChunkSize, w[i].rend - w[i].rpos + 1)
       IN  w' = [w EXCEPT ![i] =
                    [@ EXCEPT !.pc = "got",
                              !.data = RemoteSlice(w[i].rpos, w[i].rpos + n - 1),
                              !.rpos = @ + n]]
    /\ UNCHANGED <<sv, lock, st, disk, cpc, total_size, progress, chunks, downloaded,
                   saver, saveBuf, ul, env>>

\* _download_chunk with the slip of an `except` that re-raises: the error
\* leaves the pool and ends download().
StreamErrorRaised(i) ==
    /\ Running
    /\ w[i].pc = "recv"
    /\ w[i].rpos <= w[i].rend
    /\ outFile' = CloseFile(outFile, w[i].fpos, w[i].buf)
    /\ w' = [w EXCEPT ![i] = [@ EXCEPT !.pc = "failed", !.buf = <<>>,
                                       !.err = "stream"]]
    /\ cpc' = "raised"
    /\ UNCHANGED <<sv, lock, st, outExists, progExists, progReadable, progLines,
                   total_size, progress, chunks, downloaded, saver, saveBuf,
                   ul, env>>

\* iter_content raises in mid-stream: the file is closed, the worker
\* returns False.
StreamError(i) ==
    /\ Running
    /\ w[i].pc = "recv"
    /\ w[i].rpos <= w[i].rend
    /\ outFile' = CloseFile(outFile, w[i].fpos, w[i].buf)
    /\ w' = [w EXCEPT ![i] = [@ EXCEPT !.pc = "failed", !.buf = <<>>,
                                       !.err = "stream"]]
    /\ UNCHANGED <<sv, lock, st, outExists, progExists, progReadable, progLines, cpc,
                   total_size, progress, chunks, downloaded, saver, saveBuf,
                   ul, env>>

\* The body has ended: the file is closed, chunk.complete = True.
EndOfBody(i) ==
    /\ Running
    /\ w[i].pc = "recv"
    /\ w[i].rpos > w[i].rend
    /\ outFile' = CloseFile(outFile, w[i].fpos, w[i].buf)
    /\ chunks' = [chunks EXCEPT ![i].complete = TRUE]
    /\ w' = [w EXCEPT ![i] = [@ EXCEPT !.pc = "complete", !.buf = <<>>]]
    /\ UNCHANGED <<sv, lock, st, outExists, progExists, progReadable, progLines, cpc,
                   total_size, progress, downloaded, saver, saveBuf, ul, env>>

\* The pause test with the slip of coming after the write: the block in
\* hand is written before the worker returns, and not counted.
ObservePauseAfterWrite(i) ==
    /\ Running
    /\ w[i].pc = "got"
    /\ pause
    /\ LET wr == BufferedWrite(outFile, w[i].fpos, w[i].buf, w[i].data)
       IN  outFile' = CloseFile(wr.file, w[i].fpos + Len(w[i].data), wr.buf)
    /\ w' = [w EXCEPT ![i] = [@ EXCEPT !.pc = "paused", !.buf = <<>>,
                                       !.data = <<>>]]
    /\ UNCHANGED <<sv, lock, st, outExists, progExists, progReadable, progLines, cpc,
                   total_size, progress, chunks, downloaded, saver, saveBuf,
                   ul, env>>

\* The worker holds a block and finds the pause event set: return True.
ObservePause(i) ==
    /\ Running
    /\ w[i].pc = "got"
    /\ pause
    /\ outFile' = CloseFile(outFile, w[i].fpos, w[i].buf)
    /\ w' = [w EXCEPT ![i] = [@ EXCEPT !.pc = "paused", !.buf = <<>>,
                                       !.data = <<>>]]
    /\ UNCHANGED <<sv, lock, st, outExists, progExists, progReadable, progLines, cpc,
                   total_size, progress, chunks, downloaded, saver, saveBuf,
                   ul, env>>

\* The locked section with the slip of counting the block in the range but
\* not in self.downloaded.
WriteBlockUncounted(i) ==
    /\ Running
    /\ w[i].pc = "got"
    /\ ~pause
    /\ LET n == Len(w[i].data)
           wr == BufferedWrite(outFile, w[i].fpos, w[i].buf, w[i].data)
           now == chunks[i].downloaded + n
       IN  /\ outFile' = wr.file
           /\ chunks' = [chunks EXCEPT ![i].downloaded = now]
           /\ downloaded' = downloaded
           /\ w' = [w EXCEPT ![i] =
                       [@ EXCEPT !.pc = IF now % (ChunkSize * SaveEvery) = 0
                                        THEN "save" ELSE "recv",
                                 !.buf = wr.buf,
                                 !.fpos = @ + n,
                                 !.data = <<>>]]
    /\ UNCHANGED <<sv, lock, st, outExists, progExists, progReadable, progLines, cpc,
                   total_size, progress, saver, saveBuf, ul, env>>

\* with self.lock: write the block, count it; then decide on a checkpoint.
WriteBlock(i) ==
    /\ Running
    /\ w[i].pc = "got"
    /\ ~pause
    /\ LET n == Len(w[i].data)
           wr == BufferedWrite(outFile, w[i].fpos, w[i].buf, w[i].data)
           now == chunks[i].downloaded + n
       IN  /\ outFile' = wr.file
           /\ chunks' = [chunks EXCEPT ![i].downloaded = now]
           /\ downloaded' = downloaded + n
           /\ w' = [w EXCEPT ![i] =
                       [@ EXCEPT !.pc = IF now % (ChunkSize * SaveEvery) = 0
                                        THEN "save" ELSE "recv",
                                 !.buf = wr.buf,
                                 !.fpos = @ + n,
                                 !.data = <<>>]]
    /\ UNCHANGED <<sv, lock, st, outExists, progExists, progReadable, progLines, cpc,
                   total_size, progress, saver, saveBuf, ul, env>>

\* with self.progress_lock: _save_progress opens the progress file with "w",
\* which creates or truncates it.
SaveOpen(i) ==
    /\ Running
    /\ w[i].pc = "save"
    /\ saver = -1
    /\ saver' = i
    /\ saveBuf' = <<>>
    /\ progExists' = TRUE
    /\ progReadable' = TRUE
    /\ progLines' = <<>>
    /\ w' = [w EXCEPT ![i].pc = "saving"]
    /\ UNCHANGED <<sv, lock, st, outExists, outFile, cpc, total_size, progress, chunks,
                   downloaded, ul, env>>

\* _save_progress: the line of the next chunk goes to the file object.
SaveLine(i) ==
    /\ Running
    /\ w[i].pc = "saving"
    /\ Len(saveBuf) < num_threads
    /\ saveBuf' = Append(saveBuf,
                         FormatLine(Len(saveBuf), chunks[Len(saveBuf)].downloaded))
    /\ UNCHANGED <<sv, lock, st, disk, cpc, total_size, progress, chunks, downloaded, w,
                   saver, ul, env>>

\* _save_progress: the file object is closed, its lines reach the file, the
\* lock is released.
SaveClose(i) ==
    /\ Running
    /\ w[i].pc = "saving"
    /\ Len(saveBuf) = num_threads
    /\ progLines' = saveBuf
    /\ saveBuf' = <<>>
    /\ saver' = -1
    /\ w' = [w EXCEPT ![i].pc = "recv"]
    /\ UNCHANGED <<sv, lock, st, outExists, outFile, progExists, progReadable, cpc,
                   total_size, progress, chunks, downloaded, ul, env>>

\* download: `while self.downloaded < self.total_size` ends.  While the
\* condition holds the loop only prints and sleeps.
ExitMonitor ==
    /\ cpc = "monitor"
    /\ downloaded >= total_size
    /\ cpc' = "joining"
    /\ UNCHANGED <<sv, lock, st, disk, total_size, progress, chunks, downloaded, w, saver,
                   saveBuf, ul, env>>

\* download: the pool is left once every worker has returned; "Download
\* complete!" is printed and the progress file removed.
Finish ==
    /\ cpc = "joining"
    /\ AllTerminated
    /\ cpc' = "done"
    /\ progExists' = FALSE
    /\ progLines' = <<>>
    /\ UNCHANGED <<sv, lock, st, outExists, outFile, progReadable, total_size, progress,
                   chunks, downloaded, w, saver, saveBuf, ul, env>>

(* ------------------- the locked section, step by step ------------------- *)

\* The worker holds a block and finds the pause event clear: it goes on to
\* `with self.lock:`.
PassPause(i) ==
    /\ Running
    /\ w[i].pc = "got"
    /\ ~pause
    /\ w' = [w EXCEPT ![i].pc = "wait"]
    /\ UNCHANGED <<sv, lock, st, disk, cpc, total_size, progress, chunks,
                   downloaded, saver, saveBuf, ul, env>>

\* self.lock.__enter__: the worker gets the lock once no worker holds it.
TakeLock(i) ==
    /\ Running
    /\ w[i].pc = "wait"
    /\ lock = None
    /\ lock' = i
    /\ w' = [w EXCEPT ![i].pc = "locked"]
    /\ UNCHANGED <<sv, st, disk, cpc, total_size, progress, chunks, downloaded,
                   saver, saveBuf, ul, env>>

\* The locked section with the slip of going back to the body read with
\* the lock still held.
LockedWriteKeepsLock(i) ==
    /\ Running
    /\ w[i].pc = "locked"
    /\ lock = i
    /\ LET n == Len(w[i].data)
           wr == BufferedWrite(outFile, w[i].fpos, w[i].buf, w[i].data)
           now == chunks[i].downloaded + n
       IN  /\ outFile' = wr.file
           /\ chunks' = [chunks EXCEPT ![i].downloaded = now]
           /\ downloaded' = downloaded + n
           /\ w' = [w EXCEPT ![i] =
                       [@ EXCEPT !.pc = IF now % (ChunkSize * SaveEvery) = 0
                                        THEN "save" ELSE "recv",
                                 !.buf = wr.buf,
                                 !.fpos = @ + n,
                                 !.data = <<>>]]
    /\ UNCHANGED <<sv, lock, st, outExists, progExists, progReadable, progLines,
                   cpc, total_size, progress, saver, saveBuf, ul, env>>

\* The locked section: f.write, the two counters, _update_progress; leaving
\* it releases the lock.
LockedWrite(i) ==
    /\ Running
    /\ w[i].pc = "locked"
    /\ lock = i
    /\ LET n == Len(w[i].data)
           wr == BufferedWrite(outFile, w[i].fpos, w[i].buf, w[i].data)
           now == chunks[i].downloaded + n
       IN  /\ outFile' = wr.file
           /\ chunks' = [chunks EXCEPT ![i].downloaded = now]
           /\ downloaded' = downloaded + n
           /\ w' = [w EXCEPT ![i] =
                       [@ EXCEPT !.pc = IF now % (ChunkSize * SaveEvery) = 0
                                        THEN "save" ELSE "recv",
                                 !.buf = wr.buf,
                                 !.fpos = @ + n,
                                 !.data = <<>>]]
    /\ lock' = None
    /\ UNCHANGED <<sv, st, outExists, progExists, progReadable, progLines, cpc,
                   total_size, progress, saver, saveBuf, ul, env>>

(* ----------------------------- environment ----------------------------- *)

\* The caller sets the pause event.
Pause ==
    /\ Running \/ Uploading
    /\ ~pause
    /\ pauses < MaxPauses
    /\ pause' = TRUE
    /\ pauses' = pauses + 1
    /\ UNCHANGED <<sv, lock, st, disk, dl, ul, fileSize, num_threads, kills>>

\* The caller clears the pause event.
Resume ==
    /\ Running \/ Uploading
    /\ pause
    /\ pause' = FALSE
    /\ UNCHANGED <<sv, lock, st, disk, dl, ul, fileSize, num_threads, kills, pauses>>

\* The process is killed: what the file objects buffered is lost, the files
\* stay as they are; a new Downloader is constructed for the same output
\* and its probes answer with the size and 206 again.
\* Only kills that leave a progress file behind are followed: after any
\* other kill the new run finds no record and starts every range at 0.
Kill ==
    /\ Running
    /\ progExists
    /\ kills < MaxKills
    /\ kills' = kills + 1
    /\ cpc' = "new"
    /\ total_size' = fileSize
    /\ progress' = EmptyProgress
    /\ chunks' = <<>>
    /\ downloaded' = 0
    /\ w' = <<>>
    /\ saver' = -1
    /\ saveBuf' = <<>>
    /\ pause' = FALSE
    /\ UNCHANGED <<sv, lock, st, disk, ul, fileSize, num_threads, pauses>>

(* -------------------------------- upload ------------------------------- *)

\* Uploader.__init__: self.num_threads
UploadThreads(n) == IF n < ChunkSize THEN 1 ELSE n

\* f.seek(start); f.read(n) on the source file of `size` bytes, which holds
\* RemoteByte(o) at offset o.
SourceRead(start, n, size) == RemoteSlice(start, Min(start + n, size) - 1)

\* Uploader.upload: build the chunks, submit one worker per chunk.
StartUpload ==
    /\ upc = "new"
    /\ LET part == Partition(file_size, UploadThreads(num_threads))
       IN  /\ uchunks' = [i \in DOMAIN part |->
                             [start |-> part[i].start, end |-> part[i].end,
                              downloaded |-> 0, complete |-> FALSE]]
           /\ uw' = [i \in DOMAIN part |-> NoUploadWorker]
    /\ upc' = "running"
    /\ UNCHANGED <<sv, lock, st, disk, dl, file_size, uploaded, storedExists, storedFile,
                   env>>

\* _upload_chunk finds the pause event set before it reads: return True.
UploadObservePause(i) ==
    /\ Uploading
    /\ uw[i].pc = "pending"
    /\ pause
    /\ uw' = [uw EXCEPT ![i].pc = "paused"]
    /\ UNCHANGED <<sv, lock, st, disk, dl, file_size, upc, uchunks, uploaded,
                   storedExists, storedFile, env>>

\* _upload_chunk reads its slice of the source file.
UploadRead(i) ==
    /\ Uploading
    /\ uw[i].pc = "pending"
    /\ ~pause
    /\ uw' = [uw EXCEPT ![i] =
                 [@ EXCEPT !.pc = "read",
                           !.data = SourceRead(uchunks[i].start,
                                               uchunks[i].end - uchunks[i].start + 1,
                                               file_size)]]
    /\ UNCHANGED <<sv, lock, st, disk, dl, file_size, upc, uchunks, uploaded,
                   storedExists, storedFile, env>>

\* open(self.input_file) or f.read raises.
UploadReadError(i) ==
    /\ Uploading
    /\ uw[i].pc = "pending"
    /\ ~pause
    /\ uw' = [uw EXCEPT ![i] = [@ EXCEPT !.pc = "failed", !.err = "file"]]
    /\ UNCHANGED <<sv, lock, st, disk, dl, file_size, upc, uchunks, uploaded,
                   storedExists, storedFile, env>>

\* requests.post is answered by handle_upload (the token is valid): an empty
\* body is refused with 400, on which raise_for_status raises; any other
\* body replaces the file stored under the name, and the answer is 200.
UploadPost(i) ==
    /\ Uploading
    /\ uw[i].pc = "read"
    /\ IF Len(uw[i].data) = 0
       THEN /\ uw' = [uw EXCEPT ![i] = [@ EXCEPT !.pc = "failed", !.err = "status"]]
            /\ UNCHANGED <<storedExists, storedFile>>
       ELSE /\ uw' = [uw EXCEPT ![i].pc = "posted"]
            /\ storedExists' = TRUE
            /\ storedFile' = uw[i].data
    /\ UNCHANGED <<sv, lock, st, disk, dl, file_size, upc, uchunks, uploaded, env>>

\* _upload_chunk with the slip of leaving out raise_for_status: an answer of
\* 403 or 500 is taken for a success.
UploadPostErrorIgnored(i) ==
    /\ Uploading
    /\ uw[i].pc = "read"
    /\ uw' = [uw EXCEPT ![i] = [@ EXCEPT !.pc = "posted", !.err = "network"]]
    /\ UNCHANGED <<sv, lock, st, disk, dl, file_size, upc, uchunks, uploaded,
                   storedExists, storedFile, env>>

\* requests.post raises (the network fails), or the server answers 403 or
\* 500 and raise_for_status raises.
UploadPostError(i) ==
    /\ Uploading
    /\ uw[i].pc = "read"
    /\ uw' = [uw EXCEPT ![i] = [@ EXCEPT !.pc = "failed", !.err = "network"]]
    /\ UNCHANGED <<sv, lock, st, disk, dl, file_size, upc, uchunks, uploaded,
                   storedExists, storedFile, env>>

\* with self.lock: the chunk and the total are credited with the slice, the
\* chunk is marked complete; return True.
UploadCommit(i) ==
    /\ Uploading
    /\ uw[i].pc = "posted"
    /\ uchunks' = [uchunks EXCEPT ![i] =
                      [@ EXCEPT !.downloaded = Len(uw[i].data), !.complete = TRUE]]
    /\ uploaded' = uploaded + Len(uw[i].data)
    /\ uw' = [uw EXCEPT ![i].pc = "complete"]
    /\ UNCHANGED <<sv, lock, st, disk, dl, file_size, upc, storedExists, storedFile, env>>

\* upload: `while self.uploaded < self.file_size` ends.
UploadExitMonitor ==
    /\ upc = "running"
    /\ uploaded >= file_size
    /\ upc' = "joining"
    /\ UNCHANGED <<sv, lock, st, disk, dl, file_size, uchunks, uw, uploaded, storedExists,
                   storedFile, env>>

\* upload: inside the loop a future is found done with result False.
UploadSeeFailure ==
    /\ upc = "running"
    /\ uploaded < file_size
    /\ \E i \in DOMAIN uw : uw[i].pc = "failed"
    /\ upc' = "failing"
    /\ UNCHANGED <<sv, lock, st, disk, dl, file_size, uchunks, uw, uploaded, storedExists,
                   storedFile, env>>

\* upload: the pool is left once every worker has returned; the result is
\* True after the loop ended, False after a failure was seen.
UploadReturn ==
    /\ upc \in {"failing", "joining"}
    /\ AllUploadsTerminated
    /\ upc' = IF upc = "joining" THEN "true" ELSE "false"
    /\ UNCHANGED <<sv, lock, st, disk, dl, file_size, uchunks, uw, uploaded, storedExists,
                   storedFile, env>>

(* ---------------------------- server handlers -------------------------- *)

\* The rest of the state, which no handler of the server touches.
client == <<disk, dl, env, st, file_size, upc, uchunks, uw, uploaded, lock>>

\* handle_file_list with the slip of creating ./files ahead of the token
\* tests.
HandleFileListEager(token) ==
    /\ dirExists' = TRUE
    /\ reply' = IF token = "none"
               THEN Response("list", token, 401, 0, <<>>, {}, TRUE)
               ELSE IF ~ValidateToken(token)
               THEN Response("list", token, 403, 0, <<>>, {}, TRUE)
               ELSE Response("list", token, 200, 0, <<>>,
                             IF storedExists THEN {Len(storedFile)} ELSE {}, TRUE)
    /\ request' = NoRequest
    /\ UNCHANGED <<client, storedExists, storedFile>>

\* do_GET for any path but /download: handle_file_list.  The listing names
\* each file of ./files with its size.
HandleFileList(token) ==
    /\ IF token = "none"
       THEN /\ reply' = Response("list", token, 401, 0, <<>>, {}, FALSE)
            /\ UNCHANGED dirExists
       ELSE IF ~ValidateToken(token)
       THEN /\ reply' = Response("list", token, 403, 0, <<>>, {}, FALSE)
            /\ UNCHANGED dirExists
       ELSE /\ reply' = Response("list", token, 200, 0, <<>>,
                                IF storedExists THEN {Len(storedFile)} ELSE {},
                                TRUE)
            /\ dirExists' = TRUE
    /\ request' = NoRequest
    /\ UNCHANGED <<client, storedExists, storedFile>>

\* do_GET for /download: handle_download.  `file` is the file parameter:
\* "none" when missing, "stored" for the name of the server's file,
\* "missing" for a name ./files does not hold.
HandleDownload(token, file, range) ==
    /\ reply' =
          IF ~ValidateToken(token) \/ file = "none"
          THEN Response("download", token, 403, 0, <<>>, {}, FALSE)
          ELSE IF ~(file = "stored" /\ storedExists)
          THEN Response("download", token, 404, 0, <<>>, {}, TRUE)
          ELSE LET size == Len(storedFile)
               IN  IF ~range.present
                   THEN Response("download", token, 200, size,
                                 WrittenBody(storedFile, 0, size), {}, TRUE)
                   ELSE IF range.s < 0
                   THEN Response("download", token, 400, 0, <<>>, {}, TRUE)
                   ELSE IF range.s >= size
                   THEN Response("download", token, 416, 0, <<>>, {}, TRUE)
                   ELSE LET end_byte == IF range.e < 0 THEN size - 1 ELSE range.e
                            content_length == end_byte - range.s + 1
                        IN  Response("download", token, 206, content_length,
                                     WrittenBody(storedFile, range.s, content_length),
                                     {}, TRUE)
    /\ request' = [file |-> file, range |-> range]
    /\ UNCHANGED <<client, dirExists, storedExists, storedFile>>

\* do_POST for /upload: handle_upload with the request body `data`; the
\* file can be opened for writing or not.
HandleUpload(token, data, writable) ==
    /\ IF token = "none" \/ ~ValidateToken(token)
       THEN /\ reply' = Response("upload", token, 403, 0, <<>>, {}, FALSE)
            /\ UNCHANGED <<dirExists, storedExists, storedFile>>
       ELSE IF Len(data) = 0
       THEN /\ reply' = Response("upload", token, 400, 0, <<>>, {}, FALSE)
            /\ UNCHANGED <<dirExists, storedExists, storedFile>>
       ELSE IF ~writable
       THEN /\ reply' = Response("upload", token, 500, 0, <<>>, {}, TRUE)
            /\ dirExists' = TRUE
            /\ UNCHANGED <<storedExists, storedFile>>
       ELSE /\ reply' = Response("upload", token, 200, 0, <<>>, {}, TRUE)
            /\ dirExists' = TRUE
            /\ storedExists' = TRUE
            /\ storedFile' = data
    /\ request' = NoRequest
    /\ UNCHANGED client

(* ---------------------------- specifications --------------------------- *)

\* Sizes of the remote file in Spec: a file smaller than the worker count, a
\* range that ends on a checkpoint, one that goes on after it, two ranges
\* that both reach a checkpoint.
FileSizes == {1, ChunkSize * SaveEvery, ChunkSize * SaveEvery + 1,
              2 * ChunkSize * SaveEvery + 1}

\* The server has its directory ./files and no file under the name at hand.
NoStoredFile == dirExists = TRUE /\ storedExists = FALSE /\ storedFile = <<>>

InitCommon ==
    /\ lock = None
    /\ progress = EmptyProgress
    /\ chunks = <<>>
    /\ downloaded = 0
    /\ w = <<>>
    /\ pause = FALSE
    /\ saver = -1
    /\ saveBuf = <<>>
    /\ kills = 0
    /\ pauses = 0
    /\ uchunks = <<>>
    /\ uw = <<>>
    /\ uploaded = 0
    /\ tempExists = FALSE
    /\ tempFile = <<>>
    /\ downloaded_size = 0
    /\ reply = NoResponse
    /\ request = NoRequest

\* A download into a fresh directory, from pyft's server; the probes have
\* answered.
Init ==
    /\ InitCommon
    /\ NoStoredFile
    /\ fileSize \in FileSizes
    /\ server = PyftServer(fileSize)
    /\ cpc = "new"
    /\ total_size = fileSize
    /\ outExists = FALSE
    /\ outFile = <<>>
    /\ num_threads \in 1..MaxThreads
    /\ progExists = FALSE
    /\ progReadable = TRUE
    /\ progLines = <<>>
    /\ file_size = 0
    /\ upc = "idle"

Next ==
    \/ StartDownload
    \/ \E i \in DOMAIN w : Request(i)
    \/ \E i \in DOMAIN w : RequestError(i)
    \/ \E i \in DOMAIN w : RecvBlock(i)
    \/ \E i \in DOMAIN w : StreamError(i)
    \/ \E i \in DOMAIN w : EndOfBody(i)
    \/ \E i \in DOMAIN w : ObservePause(i)
    \/ \E i \in DOMAIN w : WriteBlock(i)
    \/ \E i \in DOMAIN w : SaveOpen(i)
    \/ \E i \in DOMAIN w : SaveLine(i)
    \/ \E i \in DOMAIN w : SaveClose(i)
    \/ ExitMonitor
    \/ Finish
    \/ Pause
    \/ Resume
    \/ Kill

Spec == Init /\ [][Next]_vars

\* Lines a progress file found on disk may hold: written by _save_progress
\* (of any earlier run), or damaged.
DiskLines ==
    {FormatLine(k, v) : k \in 0..1, v \in 0..MaxRecordValue}
      \cup {<<IntField(0)>>,
            <<JunkField>>,
            <<IntField(0), JunkField>>,
            <<JunkField, IntField(1)>>,
            <<IntField(0), IntField(1), IntField(1)>>}

DiskRecords == {<<>>} \cup {<<l>> : l \in DiskLines}
                 \cup {<<l1, l2>> : l1 \in DiskLines, l2 \in DiskLines}

\* The engines are started on any size, any worker count and any progress
\* file that an earlier run or anything else left beside the output.
InitStart ==
    /\ InitCommon
    /\ NoStoredFile
    /\ fileSize \in 1..MaxPartSize
    /\ server = PyftServer(fileSize)
    /\ cpc = "new"
    /\ total_size = fileSize
    /\ outExists = FALSE
    /\ outFile = <<>>
    /\ num_threads \in 1..MaxPartThreads
    /\ progExists \in BOOLEAN
    /\ progReadable \in BOOLEAN
    /\ progLines \in DiskRecords
    /\ (~progExists => progReadable /\ progLines = <<>>)
    /\ (~progReadable => progLines = <<>>)
    /\ file_size \in {0, fileSize}
    /\ upc = "new"

NextStart == StartDownload \/ StartUpload

SpecStart == InitStart /\ [][NextStart]_vars

\* Completed counts a range of `len` bytes passes through: whole blocks, and
\* its length.
Counts(len) == {v \in 0..len : v % ChunkSize = 0 \/ v = len}

\* The records _save_progress of a run with n workers over `size` bytes can
\* have written last: a count per range, one of them at a checkpoint.
Checkpoints(size, n) ==
    LET part == Partition(size, n)
    IN  {v \in [0..(n - 1) -> 0..size] :
            /\ \A k \in 0..(n - 1) : v[k] \in Counts(part[k].end - part[k].start + 1)
            /\ \E k \in 0..(n - 1) :
                  v[k] > 0 /\ v[k] % (ChunkSize * SaveEvery) = 0}

\* The progress file holding the counts v.
RecordOf(v, n) == [k \in 1..n |-> FormatLine(k - 1, v[k - 1])]

\* The output file of a run with n workers that was killed when the bytes
\* counted in v, and no others, had reached the file.
WrittenFile(size, n, v) ==
    LET part == Partition(size, n)
    IN  [o \in 1..size |->
            IF \E k \in 0..(n - 1) :
                  part[k].start <= o - 1 /\ o - 1 < part[k].start + v[k]
            THEN RemoteByte(o - 1) ELSE 0]

\* A download started over what a killed run left: that run had `earlier`
\* workers, the new one has num_threads (Core's threads argument of each).
InitResume ==
    /\ InitCommon
    /\ NoStoredFile
    /\ fileSize \in FileSizes
    /\ num_threads \in 1..MaxThreads
    /\ server = PyftServer(fileSize)
    /\ cpc = "new"
    /\ total_size = fileSize
    /\ \E earlier \in 1..MaxThreads :
          \E v \in Checkpoints(fileSize, earlier) :
              /\ progLines = RecordOf(v, earlier)
              /\ outFile = WrittenFile(fileSize, earlier, v)
    /\ outExists = TRUE
    /\ progExists = TRUE
    /\ progReadable = TRUE
    /\ file_size = 0
    /\ upc = "idle"

NextResume ==
    \/ StartDownload
    \/ \E i \in DOMAIN w : Request(i)
    \/ \E i \in DOMAIN w : RequestError(i)
    \/ \E i \in DOMAIN w : RecvBlock(i)
    \/ \E i \in DOMAIN w : StreamError(i)
    \/ \E i \in DOMAIN w : EndOfBody(i)
    \/ \E i \in DOMAIN w : WriteBlock(i)
    \/ \E i \in DOMAIN w : SaveOpen(i)
    \/ \E i \in DOMAIN w : SaveLine(i)
    \/ \E i \in DOMAIN w : SaveClose(i)
    \/ ExitMonitor
    \/ Finish

SpecResume == InitResume /\ [][NextResume]_vars

\* Sizes of the remote file in SpecProbe.
MaxProbeSize == 3

\* A file an earlier download left at the output path: a version of the
\* remote file that was longer by a byte.
OldFile(size) == RemoteFile(size + 1)

\* download() is entered: any server, an output directory that is fresh or
\* holds an earlier download of the file.
InitProbe ==
    /\ InitCommon
    /\ NoStoredFile
    /\ fileSize \in 0..MaxProbeSize
    /\ num_threads \in 1..MaxThreads
    /\ server \in Servers(fileSize)
    /\ cpc = "start"
    /\ total_size = 0
    /\ outExists \in BOOLEAN
    /\ outFile = IF outExists THEN OldFile(fileSize) ELSE <<>>
    /\ progExists = FALSE
    /\ progReadable = TRUE
    /\ progLines = <<>>
    /\ file_size = 0
    /\ upc = "idle"

NextProbe ==
    \/ SizeProbe
    \/ RangeProbe
    \/ ProbeError
    \/ SingleRequest
    \/ SingleRequestError
    \/ SingleRecv
    \/ SingleStreamError
    \/ SingleFinish
    \/ StartDownload
    \/ \E i \in DOMAIN w : Request(i)
    \/ \E i \in DOMAIN w : RequestError(i)
    \/ \E i \in DOMAIN w : RecvBlock(i)
    \/ \E i \in DOMAIN w : StreamError(i)
    \/ \E i \in DOMAIN w : EndOfBody(i)
    \/ \E i \in DOMAIN w : WriteBlock(i)
    \/ ExitMonitor
    \/ Finish

SpecProbe == InitProbe /\ [][NextProbe]_vars

\* Sizes of the source file in SpecUpload.
MaxUploadSize == 4

\* An upload of a source file of any size.
InitUpload ==
    /\ InitCommon
    /\ NoStoredFile
    /\ file_size \in 0..MaxUploadSize
    /\ num_threads \in 1..MaxPartThreads
    /\ upc = "new"
    /\ fileSize = 0
    /\ server = PyftServer(fileSize)
    /\ cpc = "idle"
    /\ total_size = 0
    /\ outExists = FALSE
    /\ outFile = <<>>
    /\ progExists = FALSE
    /\ progReadable = TRUE
    /\ progLines = <<>>

NextUpload ==
    \/ StartUpload
    \/ \E i \in DOMAIN uw : UploadObservePause(i)
    \/ \E i \in DOMAIN uw : UploadRead(i)
    \/ \E i \in DOMAIN uw : UploadReadError(i)
    \/ \E i \in DOMAIN uw : UploadPost(i)
    \/ \E i \in DOMAIN uw : UploadPostError(i)
    \/ \E i \in DOMAIN uw : UploadCommit(i)
    \/ UploadExitMonitor
    \/ UploadSeeFailure
    \/ UploadReturn
    \/ Pause
    \/ Resume

SpecUpload == InitUpload /\ [][NextUpload]_vars

\* Sizes of the two files in SpecWorkers.
MaxWorkSize == 2

\* A download and an upload going on side by side in one client.
InitWorkers ==
    /\ InitCommon
    /\ NoStoredFile
    /\ fileSize \in 1..MaxWorkSize
    /\ file_size \in 1..MaxWorkSize
    /\ num_threads \in 1..MaxThreads
    /\ server = PyftServer(fileSize)
    /\ cpc = "new"
    /\ total_size = fileSize
    /\ upc = "new"
    /\ outExists = FALSE
    /\ outFile = <<>>
    /\ progExists = FALSE
    /\ progReadable = TRUE
    /\ progLines = <<>>

NextWorkers ==
    \/ StartDownload
    \/ \E i \in DOMAIN w : Request(i)
    \/ \E i \in DOMAIN w : RequestError(i)
    \/ \E i \in DOMAIN w : RecvBlock(i)
    \/ \E i \in DOMAIN w : StreamError(i)
    \/ \E i \in DOMAIN w : EndOfBody(i)
    \/ \E i \in DOMAIN w : WriteBlock(i)
    \/ ExitMonitor
    \/ Finish
    \/ StartUpload
    \/ \E i \in DOMAIN uw : UploadRead(i)
    \/ \E i \in DOMAIN uw : UploadReadError(i)
    \/ \E i \in DOMAIN uw : UploadPost(i)
    \/ \E i \in DOMAIN uw : UploadPostError(i)
    \/ \E i \in DOMAIN uw : UploadCommit(i)
    \/ UploadExitMonitor
    \/ UploadSeeFailure
    \/ UploadReturn

SpecWorkers == InitWorkers /\ [][NextWorkers]_vars

\* SpecThreads draws worker counts from (1 - MaxBelowOne)..1.
MaxBelowOne == 2

\* The engines are constructed with a worker count of 1 or less.
InitThreads ==
    /\ InitCommon
    /\ NoStoredFile
    /\ fileSize \in 1..MaxPartSize
    /\ num_threads \in (1 - MaxBelowOne)..1
    /\ server = PyftServer(fileSize)
    /\ cpc = "new"
    /\ total_size = fileSize
    /\ outExists \in BOOLEAN
    /\ outFile = IF outExists THEN OldFile(fileSize) ELSE <<>>
    /\ progExists = FALSE
    /\ progReadable = TRUE
    /\ progLines = <<>>
    /\ file_size \in {0, fileSize}
    /\ upc = "new"

SpecThreads == InitThreads /\ [][NextStart]_vars

\* Sizes of the server's file and of the bodies it is sent in SpecServer.
MaxServerSize == 3

\* Range headers the server is sent.
RangeHeaders ==
    {NoRange} \cup {RangeHeader(s, e) : s \in -1..(MaxServerSize + 1),
                                        e \in -1..(MaxServerSize + 1)}

\* The server with or without ./files, which holds one file or none; no
\* client of this program is running.
InitServer ==
    /\ InitCommon
    /\ dirExists \in BOOLEAN
    /\ storedExists \in BOOLEAN
    /\ (storedExists => dirExists)
    /\ storedFile \in {RemoteFile(n) : n \in 0..MaxServerSize}
    /\ (~storedExists => storedFile = <<>>)
    /\ fileSize = 0
    /\ num_threads = 1
    /\ server = PyftServer(fileSize)
    /\ cpc = "idle"
    /\ total_size = 0
    /\ outExists = FALSE
    /\ outFile = <<>>
    /\ progExists = FALSE
    /\ progReadable = TRUE
    /\ progLines = <<>>
    /\ file_size = 0
    /\ upc = "idle"

NextServer ==
    \/ \E token \in Tokens : HandleFileList(token)
    \/ \E token \in Tokens, file \in {"none", "stored", "missing"},
          range \in RangeHeaders : HandleDownload(token, file, range)
    \/ \E token \in Tokens, n \in 0..MaxServerSize, from \in 0..1,
          writable \in BOOLEAN :
          HandleUpload(token, RemoteSlice(from, from + n - 1), writable)

SpecServer == InitServer /\ [][NextServer]_vars

\* Sizes of the remote file in SpecPause: too small for a checkpoint.
MaxPauseSize == 3

\* A download into a fresh directory that the caller pauses and resumes.
InitPause ==
    /\ InitCommon
    /\ NoStoredFile
    /\ fileSize \in 1..MaxPauseSize
    /\ num_threads \in 1..MaxThreads
    /\ server = PyftServer(fileSize)
    /\ cpc = "new"
    /\ total_size = fileSize
    /\ outExists = FALSE
    /\ outFile = <<>>
    /\ progExists = FALSE
    /\ progReadable = TRUE
    /\ progLines = <<>>
    /\ file_size = 0
    /\ upc = "idle"

NextPause ==
    \/ StartDownload
    \/ \E i \in DOMAIN w : Request(i)
    \/ \E i \in DOMAIN w : RequestError(i)
    \/ \E i \in DOMAIN w : RecvBlock(i)
    \/ \E i \in DOMAIN w : StreamError(i)
    \/ \E i \in DOMAIN w : EndOfBody(i)
    \/ \E i \in DOMAIN w : ObservePause(i)
    \/ \E i \in DOMAIN w : WriteBlock(i)
    \/ ExitMonitor
    \/ Finish
    \/ Pause
    \/ Resume

SpecPause == InitPause /\ [][NextPause]_vars

\* The download of SpecPause with the locked section of each worker taken
\* step by step: the pause test, the wait for the lock, the section.
NextLock ==
    \/ StartDownload
    \/ \E i \in DOMAIN w : Request(i)
    \/ \E i \in DOMAIN w : RequestError(i)
    \/ \E i \in DOMAIN w : RecvBlock(i)
    \/ \E i \in DOMAIN w : StreamError(i)
    \/ \E i \in DOMAIN w : EndOfBody(i)
    \/ \E i \in DOMAIN w : ObservePause(i)
    \/ \E i \in DOMAIN w : PassPause(i)
    \/ \E i \in DOMAIN w : TakeLock(i)
    \/ \E i \in DOMAIN w : LockedWrite(i)
    \/ ExitMonitor
    \/ Finish
    \/ Pause
    \/ Resume

SpecLock == InitPause /\ [][NextLock]_vars

(* -------------------------------- claims ------------------------------- *)

RangeLen(c) == c.end - c.start + 1

Offsets(c) == c.start..c.end

\* The ranges ch[0..n-1] are contiguous, pairwise disjoint, and their union
\* is [0, total - 1].
RangesTile(ch, total) ==
    LET n == Cardinality(DOMAIN ch)
    IN  /\ n >= 1
        /\ DOMAIN ch = 0..(n - 1)
        /\ \A i \in 0..(n - 2) : ch[i + 1].start = ch[i].end + 1
        /\ \A i, j \in DOMAIN ch : i # j => Offsets(ch[i]) \cap Offsets(ch[j]) = {}
        /\ UNION {Offsets(ch[i]) : i \in DOMAIN ch} = 0..(total - 1)

\* C1: the ranges built by Downloader.download and by Uploader.upload are
\* contiguous, non-overlapping and cover exactly [0, total_size - 1]; for
\* total_size = 0 the result is the single empty range.
C1_RangesTileOrSingleEmpty ==
    /\ cpc = "monitor" =>
          /\ RangesTile(chunks, total_size)
          /\ total_size = 0 => DOMAIN chunks = {0} /\ RangeLen(chunks[0]) = 0
    /\ upc = "running" =>
          /\ RangesTile(uchunks, file_size)
          /\ file_size = 0 => DOMAIN uchunks = {0} /\ RangeLen(uchunks[0]) = 0

\* There are exactly n ranges, the first n - 1 of length total // n, the last
\* of length total - (n - 1) * (total // n).
PartitionShape(ch, total, n) ==
    /\ DOMAIN ch = 0..(n - 1)
    /\ \A i \in 0..(n - 2) : RangeLen(ch[i]) = total \div n
    /\ RangeLen(ch[n - 1]) = total - (n - 1) * (total \div n)

\* C2: the partitioner yields exactly N ranges, the first N - 1 of length
\* total_size // N and the last of length total_size - (N-1)*(total_size // N);
\* 1,000,000 bytes for 4 workers are cut into [0,249999], [250000,499999],
\* [500000,749999], [750000,999999].
C2_PartitionShape ==
    /\ cpc = "monitor" => PartitionShape(chunks, total_size, num_threads)
    /\ upc = "running" =>
          PartitionShape(uchunks, file_size, UploadThreads(num_threads))
    /\ Partition(1000000, 4) =
          [i \in 0..3 |-> [start |-> i * 250000, end |-> i * 250000 + 249999]]

\* Both engines have cut a size that the worker count does not divide.
C2_Witness ==
    /\ cpc = "monitor" /\ num_threads >= 2
    /\ total_size > num_threads /\ total_size % num_threads # 0
    /\ upc = "running" /\ Cardinality(DOMAIN uchunks) >= 2
    /\ file_size > num_threads /\ file_size % num_threads # 0

\* C3: in every state of a multi-range download every range has
\* 0 <= completed <= end - start + 1.
C3_CompletedWithinRange ==
    \A i \in DOMAIN chunks :
        0 <= chunks[i].downloaded /\ chunks[i].downloaded <= RangeLen(chunks[i])

\* The file is open in worker i.
FileOpen(i) == w[i].pc \in {"recv", "got", "save", "saving"}

\* C4: in a download started again after a kill, no worker's writes reach
\* below start + the completed count the record gave its range, and once the
\* transfer has completed the output file equals the remote file, which is
\* what an uninterrupted transfer leaves.
C4_ResumeCorrect ==
    kills > 0 =>
       /\ \A i \in DOMAIN w :
             FileOpen(i) =>
                w[i].fpos - Len(w[i].buf) >= chunks[i].start + Get(progress, i)
       /\ cpc = "done" => outFile = RemoteFile(fileSize)

\* C5: with the pause event clear and no worker failed, every range that is
\* not Complete has a worker at work on it (resume re-spawned it), so that
\* the transfer can finish.
C5_ResumeRespawns ==
    (cpc = "monitor" /\ ~pause /\ ~AnyFailed) =>
        \A i \in DOMAIN w : chunks[i].complete \/ w[i].pc \notin Terminated

\* C6: a download is reported complete only when every range is marked
\* Complete.
C6_CompleteOnlyIfAllComplete ==
    cpc = "done" => \A i \in DOMAIN chunks : chunks[i].complete

\* C7: a transfer with a Failed worker is never reported successful, and it
\* is not left waiting for bytes once every worker has returned: it ends with
\* a failure result.
C7_FailureReported ==
    AnyFailed =>
       /\ cpc # "done"
       /\ ~(cpc = "monitor" /\ AllTerminated /\ downloaded < total_size)

\* The record holds one well-formed line per range, in order.
CompleteRecord(lines) ==
    /\ Len(lines) = num_threads
    /\ \A k \in 1..Len(lines) : LineParses(lines[k]) /\ lines[k][1].n = k - 1

\* C9: the progress file, whenever it exists, holds a complete record, never
\* a truncated or partial one.
C9_RecordAlwaysComplete == progExists => CompleteRecord(progLines)

\* C10: when the pause event is set and every worker has stopped, the
\* progress file holds every range's current completed count.
C10_FlushedOnPause ==
    (Running /\ pause /\ AllTerminated /\ \E i \in DOMAIN w : w[i].pc = "paused") =>
        /\ progExists
        /\ CompleteRecord(progLines)
        /\ \A i \in DOMAIN chunks : progLines[i + 1][2].n = chunks[i].downloaded

\* The record on disk does not parse.
Unparseable ==
    progExists /\ (~progReadable \/ \E k \in 1..Len(progLines) : ~LineParses(progLines[k]))

\* C8: when the progress file exists but cannot be parsed, loading it raises
\* nothing and yields the empty mapping: every range starts with completed = 0.
C8_CorruptRecordIsNoProgress ==
    (Unparseable /\ cpc # "new") =>
        /\ cpc = "monitor"
        /\ progress = EmptyProgress
        /\ \A i \in DOMAIN chunks : chunks[i].downloaded = 0

\* A download has started over a record with a damaged line beside a line
\* that gives range 0 a positive count.
C8_Witness ==
    /\ cpc = "monitor"
    /\ Unparseable
    /\ \E k \in 1..Len(progLines) :
          LineParses(progLines[k]) /\ progLines[k][1].n = 0 /\ progLines[k][2].n > 0

\* C11: the progress file is deleted only in a state where the transferred
\* total equals total_size; in no other state does the engine delete it.
C11_DeletedOnlyAtTotal ==
    [][(progExists /\ ~progExists') => downloaded = total_size]_vars

\* Every range is marked Complete.
AllComplete == \A i \in DOMAIN chunks : chunks[i].complete

\* C12: once a multi-range download has finished with every range Complete,
\* the transferred total equals total_size and the progress file does not
\* exist, whatever the interleaving of the workers was.
C12_FinishedTotalNoRecord ==
    (cpc = "done" /\ AllComplete) => (downloaded = total_size /\ ~progExists)

\* download() is in, or has completed, _single_thread_download.
SingleThreaded == cpc \in {"single", "stream", "single_done"}

\* download() is on its multi-range path.
MultiRange == cpc \in {"new", "monitor", "joining", "done"}

\* A size header that is missing or carries one of the placeholder values.
NoRealSize(h) == ~h.present \/ h.n \in {0, ErrorPageSize}

\* C13: when the one-byte range probe is answered with a status other than
\* 206, or neither probe response gives a size, the download runs as one
\* whole-stream transfer: no range is created, no worker is spawned, and no
\* progress file is written.
C13_FallbackIsWholeStream ==
    /\ ((~server.get.present /\ NoRealSize(server.head)) \/ RangeProbeStatus # 206) =>
          (cpc \in {"start", "sized", "raised"} \/ SingleThreaded)
    /\ SingleThreaded =>
          (chunks = <<>> /\ w = <<>> /\ ~progExists /\ progLines = <<>>)

\* A server that gave the size but answered the range probe with 200 was
\* downloaded from in one stream, to the end.
C13_Witness ==
    /\ cpc = "single_done"
    /\ server.get.present /\ ~server.ranges
    /\ fileSize >= 2 /\ total_size = fileSize

\* C14: for the same remote file, a completed whole-stream download and a
\* completed multi-range download (every range Complete), for any worker
\* count, leave the same output: the bytes of the remote file.
C14_SameOutput ==
    /\ cpc = "single_done" => outFile = RemoteFile(fileSize)
    /\ (cpc = "done" /\ AllComplete) => outFile = RemoteFile(fileSize)

\* C18: a size header that is absent, "0" or "357" is never taken as
\* total_size, by either probe; when neither probe gives a real size the
\* size is unknown and the download is one whole-stream transfer.
C18_PlaceholderNeverTaken ==
    /\ cpc = "sized" => total_size \notin {0, ErrorPageSize}
    /\ (NoRealSize(server.head) /\ NoRealSize(server.get)) =>
          (cpc \in {"start", "raised"} \/ SingleThreaded)

\* C15: a range whose request fails with a transient error is tried again,
\* from start + completed, up to a bounded count that lets a third attempt
\* succeed: it ends Failed on such an error only after at least three
\* attempts.
C15_TransientRetried ==
    \A i \in DOMAIN w :
        (w[i].pc = "failed" /\ w[i].err \in {"network", "stream"}) =>
            w[i].tries >= 3

\* C16: a download worker whose range request is answered with a status
\* other than 206 ends Failed in that step, which writes no byte and leaves
\* every completed count and the transferred total as they were; it stays
\* Failed, and neither it nor the transfer turns to the whole-stream path.
C16_RefusedRangeFails ==
    [][\A i \in DOMAIN w \cap DOMAIN w' :
          /\ (w[i].err # "status" /\ w'[i].err = "status") =>
                /\ w'[i].pc = "failed"
                /\ outFile' = outFile
                /\ chunks' = chunks
                /\ downloaded' = downloaded
                /\ cpc' = cpc
          /\ w[i].err = "status" =>
                /\ w'[i] = w[i]
                /\ chunks'[i] = chunks[i]
                /\ ~SingleThreaded']_vars

\* A range with bytes to its credit had its request refused, and the
\* download went on to its end.
C16_Witness ==
    /\ cpc = "done"
    /\ \E i \in DOMAIN w :
          w[i].pc = "failed" /\ w[i].err = "status" /\ chunks[i].downloaded > 0

\* C17: an error inside a download or upload worker makes that worker
\* return False and nothing else: the step leaves every other worker and
\* the caller of the pool where they were, and download() and upload() are
\* never ended by an exception once workers exist.
C17_WorkerErrorsAbsorbed ==
    [][/\ \A i \in DOMAIN w \cap DOMAIN w' :
             (w[i].pc # "failed" /\ w'[i].pc = "failed") =>
                /\ cpc' = cpc
                /\ \A j \in DOMAIN w \ {i} : w'[j] = w[j]
       /\ \A i \in DOMAIN uw \cap DOMAIN uw' :
             (uw[i].pc # "failed" /\ uw'[i].pc = "failed") =>
                /\ upc' = upc
                /\ \A j \in DOMAIN uw \ {i} : uw'[j] = uw[j]
       /\ cpc' = "raised" => w' = <<>>
       /\ upc' # "raised"]_vars

\* In both engines a worker has failed on an error and another worker has
\* completed its range.
C17_Witness ==
    /\ \E i, j \in DOMAIN w :
          w[i].pc = "failed" /\ w[i].err = "stream" /\ w[j].pc = "complete"
    /\ \E i, j \in DOMAIN uw :
          uw[i].pc = "failed" /\ uw[i].err = "network" /\ uw[j].pc = "complete"

\* The single range [0, total - 1], nothing transferred yet.
OneRange(ch, total) ==
    ch = [i \in {0} |-> [start |-> 0, end |-> total - 1, downloaded |-> 0,
                         complete |-> FALSE]]

\* C19: for a worker count below 1 the engines behave as for 1: they build
\* the single range [0, total_size - 1], raise no error and go on to the
\* transfer.
C19_BelowOneIsOne ==
    num_threads < 1 =>
       /\ cpc # "new" => (cpc = "monitor" /\ OneRange(chunks, total_size))
       /\ upc # "new" => (upc = "running" /\ OneRange(uchunks, file_size))

\* C20: in every state of an upload each range's completed count is 0 or
\* end - start + 1; it is the full length, and the range marked complete,
\* only once the worker's one push, which carried exactly the source bytes
\* [start, end], was answered with success.
C20_UploadAllOrNothing ==
    \A i \in DOMAIN uchunks :
        /\ uchunks[i].downloaded \in {0, RangeLen(uchunks[i])}
        /\ (uchunks[i].downloaded > 0 \/ uchunks[i].complete) =>
              /\ uchunks[i].downloaded = RangeLen(uchunks[i])
              /\ uchunks[i].complete
              /\ uw[i].pc = "complete"
              /\ uw[i].err = "none"
              /\ uw[i].data = RemoteSlice(uchunks[i].start, uchunks[i].end)

\* One range of several bytes is complete, another failed with nothing to
\* its credit, a third has its slice in hand and is not credited yet.
C20_Witness ==
    \E i, j, k \in DOMAIN uchunks :
        /\ uchunks[i].complete /\ RangeLen(uchunks[i]) >= 2
        /\ uw[j].pc = "failed" /\ RangeLen(uchunks[j]) >= 1
        /\ uw[k].pc = "posted" /\ uchunks[k].downloaded = 0

\* Every upload range is marked complete.
AllUploadsComplete == \A i \in DOMAIN uchunks : uchunks[i].complete

\* C21: once every range of an upload has been pushed successfully, for any
\* worker count and any arrival order, the file the server stores under the
\* uploaded name equals the source file: each slice sits at the offset its
\* Content-Range names.
C21_StoredEqualsSource ==
    (upc = "true" /\ AllUploadsComplete) =>
        (storedExists /\ storedFile = RemoteFile(file_size))

\* C22: every write of the worker of range i goes to offsets inside
\* [start_i, end_i] only, so that under any interleaving no two workers write
\* the same offset of the output file.
C22_WritesInsideOwnRange ==
    [][\A i \in DOMAIN w \cap DOMAIN w' :
          (w[i].pc = "got" /\ w'[i].pc \in {"recv", "save"}) =>
              /\ chunks[i].start <= w[i].fpos
              /\ w[i].fpos + Len(w[i].data) - 1 <= chunks[i].end]_vars

\* C23: a file-list request without a token is answered 401, a file-list,
\* download or upload request whose token does not validate is answered 403,
\* and a request answered 401 or 403 has touched no file: the directory
\* and the stored file are as they were before the request.
C23_DeniedBeforeFiles ==
    [][/\ (reply'.kind = "list" /\ reply'.token = "none") => reply'.status = 401
       /\ (reply'.kind \in {"list", "download", "upload"} /\ reply'.token = "bad")
              => reply'.status = 403
       /\ reply'.status \in {401, 403} =>
              /\ ~reply'.touched
              /\ UNCHANGED <<dirExists, storedExists, storedFile>>]_vars

\* An upload with a body and a token that does not validate was refused
\* while ./files does not exist.
C23_Witness ==
    /\ reply.kind = "upload"
    /\ reply.status = 403
    /\ reply.token = "bad"
    /\ ~dirExists

\* C24: a download request with a valid token and no Range header is
\* answered 200 with the whole content of the named file as its body when
\* the file exists, and 404 with no body when it does not.
C24_WholeFileOrNotFound ==
    (reply.kind = "download" /\ ValidateToken(reply.token)
       /\ request.file # "none" /\ ~request.range.present) =>
        IF request.file = "stored" /\ storedExists
        THEN reply.status = 200 /\ reply.body = storedFile
                /\ reply.length = Len(storedFile)
        ELSE reply.status = 404 /\ reply.body = <<>>

\* A whole stored file of several bytes was sent in answer to a download
\* request without a Range header.
C24_Witness ==
    /\ reply.kind = "download"
    /\ reply.status = 200
    /\ ~request.range.present
    /\ Len(reply.body) > 1

\* A download request for a missing file was answered 404.
C24_WitnessMissing ==
    /\ reply.kind = "download"
    /\ reply.status = 404
    /\ ~request.range.present

\* The sum of the per-range counts of a transfer.
SumOfRanges(ch) == SumDownloaded(ch, Cardinality(DOMAIN ch))

\* C25: under every interleaving of the workers the shared total equals the
\* sum of the per-range counts after every step, for the download
\* (self.downloaded) and for the upload (self.uploaded), and neither total
\* ever decreases.
C25_TotalIsSumAndGrows ==
    /\ [](downloaded = SumOfRanges(chunks) /\ uploaded = SumOfRanges(uchunks))
    /\ [][downloaded' >= downloaded /\ uploaded' >= uploaded]_vars

\* Two download workers have each counted a block, and an upload worker has
\* counted its slice.
C25_Witness ==
    /\ Cardinality(DOMAIN chunks) = 2
    /\ \A i \in DOMAIN chunks : chunks[i].downloaded > 0
    /\ uploaded > 0

\* C26: a download worker's range request starts at start + completed, and
\* every block it receives is written at offset start + completed as the
\* count stood before the block, after which the position and the count have
\* both advanced by the block's length (which is positive): the offsets
\* written within one range increase strictly, with no gap and no overlap.
C26_WritesAreContiguous ==
    [][\A i \in DOMAIN w \cap DOMAIN w' :
          /\ (w[i].pc = "pending" /\ w'[i].pc = "recv") =>
                 /\ w'[i].rpos = chunks[i].start + chunks[i].downloaded
                 /\ w'[i].fpos = chunks[i].start + chunks[i].downloaded
          /\ (w[i].pc = "got" /\ w'[i].pc \in {"recv", "save"}) =>
                 /\ w[i].fpos = chunks[i].start + chunks[i].downloaded
                 /\ Len(w[i].data) > 0
                 /\ chunks'[i].downloaded = chunks[i].downloaded + Len(w[i].data)
                 /\ w'[i].fpos = w[i].fpos + Len(w[i].data)]_vars

\* A worker that resumed a range with bytes already counted has written two
\* more blocks.
C26_Witness ==
    \E i \in DOMAIN w :
        /\ i \in DOMAIN progress
        /\ progress[i] > 0
        /\ chunks[i].downloaded >= progress[i] + 2 * ChunkSize
        /\ w[i].fpos = chunks[i].start + chunks[i].downloaded

RECURSIVE Flushed(_, _, _)
\* The file once the first n workers' file objects have flushed what they
\* buffer.
Flushed(file, ws, n) ==
    IF n = 0 THEN file
    ELSE LET rest == Flushed(file, ws, n - 1)
         IN  IF ws[n - 1].buf = <<>> THEN rest
             ELSE CloseFile(rest, ws[n - 1].fpos, ws[n - 1].buf)

\* The output file as the blocks written so far make it: the bytes on disk
\* and, over them, the bytes f.write has accepted and still buffers.
FileContent(file, ws) == Flushed(file, ws, Cardinality(DOMAIN ws))

OnNetwork(i) == w[i].pc \in {"pending", "recv"}

\* C28: self.lock is held only inside the section that writes the block and
\* adds to the counters: its holder is never a worker waiting for the
\* network, so whenever a worker waits for the lock while others wait for
\* the network, the lock is free or its holder is about to release it.
C28_LockNeverAcrossNetwork ==
    /\ \A i \in DOMAIN w : OnNetwork(i) => lock # i
    /\ lock # None => (lock \in DOMAIN w /\ w[lock].pc = "locked")
    /\ \A j \in DOMAIN w :
          (Running /\ w[j].pc = "wait") =>
              \/ ENABLED TakeLock(j)
              \/ lock \in DOMAIN w /\ ENABLED LockedWrite(lock)

\* One worker waits for a block of the body while another is inside the
\* locked section.
C28_Witness ==
    \E i, j \in DOMAIN w :
        /\ i # j
        /\ w[i].pc = "recv"
        /\ w[i].rpos <= w[i].rend
        /\ w[j].pc = "locked"
        /\ lock = j

\* C29: when download() starts its workers, the output file exists and its
\* size is exactly total_size, whether or not a file was at the output path
\* before.
C29_OutputPreSized ==
    [][(cpc # "monitor" /\ cpc' = "monitor") =>
          (outExists' /\ Len(outFile') = total_size')]_vars

\* C30: once every worker of a multi-range download() has terminated, be it
\* complete, failed or stopped on the pause flag, download() goes on to
\* return: its monitor loop can end, or the pool can be left.
C30_ReturnsAfterWorkers ==
    (Running /\ DOMAIN w # {} /\ AllTerminated) =>
        (ENABLED ExitMonitor \/ ENABLED Finish)

\* C31: upload() returns True only if the push of every range was answered
\* with success, and once every upload worker has terminated, be it
\* complete, failed or stopped on the pause flag, upload() goes on to
\* return: its monitor loop can end or see the failure, or the pool can be
\* left.
C31_UploadResult ==
    /\ upc = "true" => \A i \in DOMAIN uw : uw[i].pc = "complete"
    /\ (Uploading /\ DOMAIN uw # {} /\ AllUploadsTerminated) =>
          (ENABLED UploadExitMonitor \/ ENABLED UploadSeeFailure
             \/ ENABLED UploadReturn)

\* Range i was loaded from the progress file with every byte of it counted.
LoadedFull(i) ==
    /\ i \in DOMAIN progress
    /\ i \in DOMAIN chunks
    /\ progress[i] > 0
    /\ progress[i] = RangeLen(chunks[i])

\* C32: on a resumed download the worker of a range that was loaded with its
\* full length counted does not fail on the server's answer and writes no
\* byte (its count stays as loaded), and once it has returned without a
\* network error its range is complete.
C32_FullRangeEndsComplete ==
    \A i \in DOMAIN w :
        LoadedFull(i) =>
            /\ w[i].err # "status"
            /\ chunks[i].downloaded = progress[i]
            /\ (w[i].pc \in Terminated /\ w[i].err = "none") => chunks[i].complete

\* The last request was a download of the stored file with a valid token and
\* the header "Range: bytes=s-e", where s <= e < file_size.
RangeInsideFile ==
    /\ reply.kind = "download"
    /\ ValidateToken(reply.token)
    /\ request.file = "stored"
    /\ storedExists
    /\ request.range.present
    /\ 0 <= request.range.s
    /\ request.range.s <= request.range.e
    /\ request.range.e < Len(storedFile)

\* C33: a download request with "Range: bytes=s-e", s <= e < file_size, is
\* answered 206 with Content-Length e - s + 1, and the body written is
\* exactly the bytes at offsets s..e of the file.
C33_RangeBodyExact ==
    RangeInsideFile =>
        /\ reply.status = 206
        /\ reply.length = request.range.e - request.range.s + 1
        /\ reply.body = SubSeq(storedFile, request.range.s + 1, request.range.e + 1)

\* The first v bytes of range k are in `file`.
InFile(file, k, v) ==
    \A o \in chunks[k].start..(chunks[k].start + v - 1) :
        o < Len(file) /\ file[o + 1] = RemoteByte(o)

\* The counts of the checkpoint the progress file holds, by range.
Recorded ==
    IF progExists /\ progReadable /\ cpc \in {"monitor", "joining"}
         /\ Len(progLines) = Cardinality(DOMAIN chunks)
         /\ \A k \in 1..Len(progLines) :
               LineParses(progLines[k]) /\ progLines[k][1].n = k - 1
    THEN [k \in DOMAIN chunks |-> progLines[k + 1][2].n]
    ELSE [k \in DOMAIN chunks |-> 0]

\* C34: under every interleaving of workers and checkpoint writes, the
\* count the checkpoint on disk records for a range is never more than the
\* bytes of that range which are in the output file, and within a run a
\* range's count, from which the checkpoints are taken, never decreases.
C34_CheckpointBehindFile ==
    /\ [](\A k \in DOMAIN chunks : InFile(outFile, k, Recorded[k]))
    /\ [][cpc' # "new" =>
            \A k \in DOMAIN chunks \cap DOMAIN chunks' :
                chunks'[k].downloaded >= chunks[k].downloaded]_vars

====
